---- MODULE Spec2Model ----
(***************************************************************************)
(* cds-admin-service: two serverless handlers.                             *)
(*   - the banner updater (read, shallow merge, conditional write against  *)
(*     the GitHub contents API), specification SpecUpdater;                *)
(*   - the live-status aggregator check-live (single cache slot, per-entry *)
(*     liveness probe), specification SpecAggregator.                      *)
(* JavaScript values are modelled as tagged records [t, v]; JSON objects   *)
(* as functions from their keys to such values.                            *)
(***************************************************************************)
EXTENDS Integers, Sequences, FiniteSets, TLC

\* ------------------------------------------------------------ bounds
\* Number of updater invocations (they may overlap in time).
NumCalls == 2
\* Number of aggregator invocation slots (invocations may overlap in time;
\* a slot takes a new invocation once the previous one has returned).
NumLiveCalls == 2
\* Number of clock ticks, of half the cache TTL each.
MaxTicks == 2

\* ------------------------------------------------------------ JS values
JStr(s) == [t |-> "string", v |-> s]
JNull == [t |-> "null", v |-> "null"]
JTrue == [t |-> "boolean", v |-> "true"]
JFalse == [t |-> "boolean", v |-> "false"]
JNum(n) == [t |-> "number", v |-> n]
Undefined == [t |-> "undefined", v |-> "undefined"]

\* ToBoolean: "", 0, false, null and undefined are falsy.
Truthy(x) ==
  CASE x.t = "string" -> x.v # ""
    [] x.t = "boolean" -> x.v = "true"
    [] x.t = "number" -> x.v # "0"
    [] OTHER -> FALSE

\* The empty object {}.
EmptyObj == <<>>

\* Property read o.k: undefined when the key is absent.
Get(o, k) == IF k \in DOMAIN o THEN o[k] ELSE Undefined

\* A parsed JSON document: an object with its fields, or another JSON value.
ObjDoc(o) == [t |-> "object", o |-> o]
NullDoc == [t |-> "null", o |-> EmptyObj]
NumberDoc == [t |-> "number", o |-> EmptyObj]
StringDoc == [t |-> "string", o |-> EmptyObj]
ArrayDoc == [t |-> "array", o |-> EmptyObj]

\* typeof: null and arrays are "object" too.
TypeOf(doc) == IF doc.t \in {"object", "null", "array"} THEN "object" ELSE doc.t

\* A text: empty or not, well-formed JSON or not, and the document it denotes.
Text(doc) == [empty |-> FALSE, wf |-> TRUE, doc |-> doc]
EmptyText == [empty |-> TRUE, wf |-> FALSE, doc |-> NullDoc]
GarbageText == [empty |-> FALSE, wf |-> FALSE, doc |-> NullDoc]

\* JSON.parse: Threw(text) when it throws a SyntaxError, else Parsed(text).
Threw(text) == ~text.wf
Parsed(text) == text.doc

\* JSON.stringify(o, null, 2) + "\n" of an object built from parsed JSON.
JSONStringify(o) == Text(ObjDoc(o))

\* Buffer.from(text, "utf8").toString("base64") and back.
Base64Encode(text) == [b64 |-> text]
Base64Decode(b) == b.b64

\* Date.parse on the strings of the model: a finite epoch for ISO-8601
\* timestamps, NaN (modelled as -1, no timestamp of the model is negative)
\* for anything else.
NaN == -1
IsoDates == {"2024-01-01T00:00:00Z", "2024-12-31T23:59:59Z"}
DateParse(x) ==
  IF x.t = "string" /\ x.v \in IsoDates
  THEN (IF x.v = "2024-01-01T00:00:00Z" THEN 1704067200 ELSE 1735689599)
  ELSE NaN
IsFinite(n) == n # NaN

\* ------------------------------------------------------------ updater inputs
Secret == "s3cret"

\* process.env of the updater: ADMIN_SECRET (unset, empty or set) and the
\* four repository coordinates (the set of those that are unset or empty).
EnvVar(set, v) == [set |-> set, v |-> v]
Coordinates == {"GITHUB_TOKEN", "BANNER_REPO", "BANNER_PATH", "BANNER_BRANCH"}
GoodEnv ==
  [ADMIN_SECRET |-> EnvVar(TRUE, Secret), missing |-> {},
   ALLOWED_ORIGIN |-> EnvVar(FALSE, "")]
BadEnvs ==
  { [GoodEnv EXCEPT !.missing = {x}] : x \in Coordinates }
  \cup
  { [GoodEnv EXCEPT !.ADMIN_SECRET = s,
                   !.ALLOWED_ORIGIN = EnvVar(TRUE, "https://app.example")] :
      s \in {EnvVar(FALSE, ""), EnvVar(TRUE, "")} }

\* The Authorization header: the text up to and including the first seven
\* characters' worth of scheme, and what follows it.
Header(scheme, rest) == [present |-> TRUE, scheme |-> scheme, rest |-> rest]
NoHeader == [present |-> FALSE, scheme |-> "", rest |-> ""]
AuthHeaders ==
  { NoHeader, Header("Bearer ", Secret), Header("Bearer ", "wrong"),
    Header("Bearer ", ""), Header("", Secret) }

Methods == {"OPTIONS", "POST", "GET"}

\* Request payload objects.
TitleId == [title |-> JStr("B"), id |-> JStr("1")]
Payloads ==
  { TitleId,
    [title |-> JStr("C"), id |-> JStr("2"), note |-> JStr("n")],
    [title |-> JStr("B"), id |-> JStr("1"), start |-> JStr("2024-01-01T00:00:00Z")],
    [title |-> JStr("B"), id |-> JStr("1"), start |-> JStr("soon")],
    [title |-> JStr("B"), id |-> JStr("1"), end |-> JStr("later")],
    [title |-> JStr("B"), id |-> JStr("1"), start |-> JStr("")],
    [title |-> JStr("B"), id |-> JStr("1"), end |-> JNull],
    [title |-> JStr("B")],
    [id |-> JStr("1"), extra |-> JTrue],
    [title |-> JStr(""), id |-> JStr("1")],
    [start |-> JStr("soon")] }

\* Request bodies: none, malformed, JSON that is no object, and the objects.
Bodies ==
  { EmptyText, GarbageText, Text(NullDoc), Text(NumberDoc), Text(StringDoc),
    Text(ArrayDoc) } \cup { Text(ObjDoc(p)) : p \in Payloads }

\* Bodies sent along with requests that are not authorized POSTs.
FewBodies == { GarbageText, Text(ObjDoc(TitleId)) }

\* event: the method, the two headers the handler reads, and the body.
Event(m, a, b) == [httpMethod |-> m, authorization |-> a, origin |-> "", body |-> b]
Events ==
  { Event("POST", Header("Bearer ", Secret), b) : b \in Bodies }
  \cup { Event(m, a, b) : m \in Methods, a \in AuthHeaders, b \in FewBodies }
  \cup { [Event("POST", NoHeader, GarbageText) EXCEPT !.origin = "https://other.example"] }

\* What the remote file may hold before the first update.
BannerFile == JSONStringify([title |-> JStr("A"), id |-> JStr("1"), extra |-> JTrue])
InitialFiles ==
  { BannerFile,
    JSONStringify(EmptyObj),
    Text(NullDoc),
    GarbageText }

\* The blob sha GitHub reports for a file content and expects back on a write.
BlobSha(content) == [blob |-> content]
RemoteFile(content) == [content |-> content, sha |-> BlobSha(content)]

\* ------------------------------------------------------------ state
VARIABLES
  env,      \* updater: process.env
  remote,   \* updater: the banner file in the remote repository
  call,     \* updater: per invocation, its position and locals
  impl,     \* aggregator: which of the two source files is deployed
  liveEnv,  \* aggregator: process.env
  upstream, \* aggregator: the JSON document at LIVE_JSON_URL
  now,      \* aggregator: the clock, Date.now()
  cache,    \* aggregator: the module-level cache slot
  live      \* aggregator: per invocation, its position and locals

uvars == <<env, remote, call>>
avars == <<impl, liveEnv, upstream, now, cache, live>>
vars == <<env, remote, call, impl, liveEnv, upstream, now, cache, live>>

Calls == 1..NumCalls

NoResp == [statusCode |-> 0, headers |-> EmptyObj, body |-> "", saved |-> EmptyObj]
NoRequest == [content |-> Base64Encode(EmptyText), sha |-> BlobSha(Base64Encode(EmptyText))]
IdleCall ==
  [pc |-> "idle", event |-> Event("GET", NoHeader, EmptyText), payload |-> EmptyObj,
   currentJson |-> EmptyObj, put |-> NoRequest, resp |-> NoResp,
   gets |-> 0, puts |-> 0, created |-> 0]

\* ------------------------------------------------------------ updater
corsHeaders(origin) ==
  [allowOrigin |-> IF origin # "" THEN origin ELSE "*",
   allowHeaders |-> "Content-Type, Authorization",
   allowMethods |-> "OPTIONS, POST",
   vary |-> "Origin"]

EnvTruthy(e) == e.set /\ e.v # ""

\* event.headers.origin || ALLOWED_ORIGIN || "*"
Origin(event) ==
  IF event.origin # "" THEN event.origin
  ELSE IF EnvTruthy(env.ALLOWED_ORIGIN) THEN env.ALLOWED_ORIGIN.v ELSE "*"

Response(status, event, body) ==
  [statusCode |-> status, headers |-> corsHeaders(Origin(event)), body |-> body,
   saved |-> EmptyObj]

\* auth.startsWith("Bearer ") ? auth.slice(7) : ""
BearerToken(event) ==
  LET h == event.authorization IN
  IF h.present /\ h.scheme = "Bearer " THEN h.rest ELSE ""

\* The check without its fail-closed first half.
UnauthorizedNotFailClosed(token) ==
  ~(env.ADMIN_SECRET.set /\ token = env.ADMIN_SECRET.v)

\* !ADMIN_SECRET || token !== ADMIN_SECRET
Unauthorized(token) ==
  \/ ~EnvTruthy(env.ADMIN_SECRET)
  \/ ~(env.ADMIN_SECRET.set /\ token = env.ADMIN_SECRET.v)

\* !GITHUB_TOKEN || !BANNER_REPO || !BANNER_PATH || !BANNER_BRANCH
MissingEnv == env.missing # {}

\* event.body || "{}"
BodyText(event) == IF event.body.empty THEN Text(ObjDoc(EmptyObj)) ELSE event.body

\* The shape check without its last test.
BadShapeIdUnchecked(doc) ==
  \/ doc.t = "null"
  \/ TypeOf(doc) # "object"
  \/ ~Truthy(Get(doc.o, "title"))

\* !payload || typeof payload !== "object" || !payload.title || !payload.id
BadShape(doc) ==
  \/ doc.t = "null"
  \/ TypeOf(doc) # "object"
  \/ ~Truthy(Get(doc.o, "title"))
  \/ ~Truthy(Get(doc.o, "id"))

checkISO(s) == ~Truthy(s) \/ IsFinite(DateParse(s))

BadDates(payload) == ~checkISO(Get(payload, "start")) \/ ~checkISO(Get(payload, "end"))

\* The handler up to its first await: the response it returns at once, or
\* NoResp when it goes on to the remote read.
EarlyResponse(event) ==
  IF event.httpMethod = "OPTIONS" THEN Response(204, event, "")
  ELSE IF event.httpMethod # "POST" THEN Response(405, event, "Method Not Allowed")
  ELSE IF Unauthorized(BearerToken(event)) THEN Response(401, event, "Unauthorized")
  ELSE IF MissingEnv THEN Response(500, event, "Missing env")
  ELSE IF Threw(BodyText(event)) THEN Response(400, event, "Bad JSON")
  ELSE IF BadShape(Parsed(BodyText(event))) THEN Response(400, event, "Missing id/title")
  ELSE IF BadDates(Parsed(BodyText(event)).o) THEN Response(400, event, "Bad date format")
  ELSE NoResp

\* {...currentJson}: the own enumerable properties; none for null or a number.
Spread(doc) == IF doc.t = "object" THEN doc.o ELSE EmptyObj

\* try { JSON.parse(Buffer.from(current.content, "base64").toString("utf8")) }
\* catch { {} }
DecodeCurrent(content) ==
  LET currentContent == Base64Decode(content) IN
  IF Threw(currentContent) THEN ObjDoc(EmptyObj) ELSE Parsed(currentContent)

\* The spread with its operands swapped: { ...payload, ...currentJson }.
MergeSwapped(currentJson, payload) ==
  [k \in (DOMAIN currentJson) \cup (DOMAIN payload) |->
     IF k \in DOMAIN currentJson THEN currentJson[k] ELSE payload[k]]

\* next = { ...currentJson, ...payload }
Merge(currentJson, payload) ==
  [k \in (DOMAIN currentJson) \cup (DOMAIN payload) |->
     IF k \in DOMAIN payload THEN payload[k] ELSE currentJson[k]]

\* The body of the PUT: the new content and the sha obtained by the read.
PutRequest(next, currentSha) ==
  [content |-> Base64Encode(JSONStringify(next)), sha |-> currentSha]

\* A store that takes every write, whatever sha it carries.
PutAcceptedAlways(req) == TRUE

\* The remote store's conditional write: accepted only when the request
\* carries the sha of the file as it is now.
PutAccepted(req) == req.sha = remote.sha

\* exports.handler, from its entry to its first await: an early response, or
\* the remote read is issued.
\* Invocations are numbered in their order of arrival.
handler(c) ==
  /\ call[c].pc = "idle"
  /\ \A d \in Calls : d < c => call[d].pc # "idle"
  /\ \E event \in Events :
       LET early == EarlyResponse(event) IN
       IF early.statusCode # 0
       THEN call' = [call EXCEPT ![c] =
                       [@ EXCEPT !.pc = "returned", !.event = event, !.resp = early]]
       ELSE call' = [call EXCEPT ![c] =
                       [@ EXCEPT !.pc = "awaitGet", !.event = event,
                                 !.payload = Parsed(BodyText(event)).o,
                                 !.gets = @ + 1]]
  /\ UNCHANGED <<env, remote, avars>>

\* A handler whose decoding has no catch: content that cannot be parsed is
\* answered 500.
getOkDecodeUncaught(c) ==
  /\ call[c].pc = "awaitGet"
  /\ LET currentSha == remote.sha
         currentJson == Spread(DecodeCurrent(remote.content))
         next == Merge(currentJson, call[c].payload)
     IN call' = [call EXCEPT ![c] =
                   IF Threw(Base64Decode(remote.content))
                   THEN [@ EXCEPT !.pc = "returned",
                                  !.resp = Response(500, call[c].event, "Bad content")]
                   ELSE [@ EXCEPT !.pc = "awaitPut", !.currentJson = currentJson,
                                  !.put = PutRequest(next, currentSha),
                                  !.resp = [NoResp EXCEPT !.saved = next],
                                  !.puts = @ + 1]]
  /\ UNCHANGED <<env, remote, avars>>

\* The read answers with success: decode, merge, and issue the write.
getOk(c) ==
  /\ call[c].pc = "awaitGet"
  /\ LET currentSha == remote.sha
         currentJson == Spread(DecodeCurrent(remote.content))
         next == Merge(currentJson, call[c].payload)
     IN call' = [call EXCEPT ![c] =
                   [@ EXCEPT !.pc = "awaitPut", !.currentJson = currentJson,
                             !.put = PutRequest(next, currentSha),
                             !.resp = [NoResp EXCEPT !.saved = next],
                             !.puts = @ + 1]]
  /\ UNCHANGED <<env, remote, avars>>

\* The read answers with a non-success status.
getNotOk(c) ==
  /\ call[c].pc = "awaitGet"
  /\ call' = [call EXCEPT ![c] =
                [@ EXCEPT !.pc = "returned",
                          !.resp = Response(502, call[c].event, "GitHub GET failed")]]
  /\ UNCHANGED <<env, remote, avars>>

\* fetch rejects, or getRes.json() throws: nothing in the handler catches it.
getThrows(c) ==
  /\ call[c].pc = "awaitGet"
  /\ call' = [call EXCEPT ![c] = [@ EXCEPT !.pc = "threw"]]
  /\ UNCHANGED <<env, remote, avars>>

\* The remote store commits the write and answers with success.
putOk(c) ==
  /\ call[c].pc = "awaitPut"
  /\ PutAccepted(call[c].put)
  /\ remote' = RemoteFile(call[c].put.content)
  /\ call' = [call EXCEPT ![c] =
                [@ EXCEPT !.pc = "returned", !.created = @ + 1,
                          !.resp = [Response(200, call[c].event, "ok") EXCEPT
                                      !.saved = call[c].resp.saved]]]
  /\ UNCHANGED <<env, avars>>

\* A handler that answers a rejected write by sending it again.
putNotOkRetried(c) ==
  /\ call[c].pc = "awaitPut"
  /\ call' = [call EXCEPT ![c] = [@ EXCEPT !.puts = @ + 1]]
  /\ UNCHANGED <<env, remote, avars>>

\* The remote store rejects the write (stale sha, or any other refusal).
putNotOk(c) ==
  /\ call[c].pc = "awaitPut"
  /\ call' = [call EXCEPT ![c] =
                [@ EXCEPT !.pc = "returned",
                          !.resp = Response(502, call[c].event, "GitHub PUT failed")]]
  /\ UNCHANGED <<env, remote, avars>>

\* The write's fetch rejects: the request was lost, or it was committed and
\* the answer was lost.
putThrows(c) ==
  /\ call[c].pc = "awaitPut"
  /\ \/ /\ UNCHANGED remote
        /\ call' = [call EXCEPT ![c] = [@ EXCEPT !.pc = "threw"]]
     \/ /\ PutAccepted(call[c].put)
        /\ remote' = RemoteFile(call[c].put.content)
        /\ call' = [call EXCEPT ![c] = [@ EXCEPT !.pc = "threw", !.created = @ + 1]]
  /\ UNCHANGED <<env, avars>>

\* ------------------------------------------------------------ aggregator inputs
\* The two aggregator sources of the repository.
CheckLive == "netlify/functions/check-live.js"
Part001 == "unnamed/part_001"
Impls == {CheckLive, Part001}

CACHE_TTL_MS == 90 * 1000
TickMs == CACHE_TTL_MS \div 2
\* Date.now() when the process starts.
StartMs == 10 * CACHE_TTL_MS
Times == { StartMs + k * TickMs : k \in 0..MaxTicks }

\* new Date().toISOString(): one text per millisecond.
ToISOString(ms) == [iso |-> ms]

\* The URLs of the model.
LiveUrl == "https://www.youtube.com/@cds/live"
WatchUrl == "https://www.youtube.com/watch?v=abcdefghijk"
EmbedUrl == "https://www.youtube.com/embed/live_stream?channel=UCcds"
LiveUrlFr == "https://www.youtube.com/@cds/live?hl=fr"
BlankUrl == "  "
Locale == "hl=en&gl=US"

\* String(inputUrl || "").trim()
Trim(s) == IF s = BlankUrl THEN "" ELSE s
\* url.includes("?")
HasQuery(s) == s \in {WatchUrl, EmbedUrl, LiveUrlFr}
\* /[?&](hl|gl)=/.test(url)
HasLocale(s) == s = LiveUrlFr
\* url += (url.includes("?") ? "&" : "?") + "hl=en&gl=US"
Normalize(url) ==
  IF HasLocale(url) THEN url
  ELSE url \o (IF HasQuery(url) THEN "&" ELSE "?") \o Locale
\* The canonical watch URL built from the id found in the markup.
CanonicalWatchUrl == WatchUrl \o "&" \o Locale
\* /\/watch\?v=/.test(finalUrl)
IsWatch(s) == s \in {WatchUrl, CanonicalWatchUrl}
\* /live_stream/.test(finalUrl)
HasLiveStream(s) == s \in {EmbedUrl, Normalize(EmbedUrl)}

\* res.url of a resolved fetch of `requested`: empty, the requested URL, or
\* the URL a redirect led to.
FinalUrls(requested) == {"", requested, CanonicalWatchUrl, Normalize(EmbedUrl)}

\* Markup, as the set of the patterns of the source that match it.
Features ==
  { "isLiveNow", "iconTypeLIVE", "liveBroadcastDetails", "isLiveBroadcast",
    "canonical", "ytBadgesLIVE", "live_stream" }
Htmls ==
  { {} } \cup { {f} : f \in Features }
  \cup { {"canonical", f} : f \in {"isLiveNow", "ytBadgesLIVE", "live_stream"} }

\* Stream entries of the upstream list.
ManualLiveFb == [platform |-> JStr("facebook"), url |-> JStr(LiveUrl), liveNow |-> JTrue]
ManualOffYt == [url |-> JStr(WatchUrl), liveNow |-> JFalse, title |-> JStr("Sunday")]
Plain == [url |-> JStr(LiveUrl), title |-> JStr("Main")]
PlainWatch == [platform |-> JStr("youtube"), url |-> JStr(WatchUrl)]
Upper == [platform |-> JStr("YouTube"), url |-> JStr(LiveUrlFr)]
Facebook == [platform |-> JStr("facebook"), url |-> JStr(LiveUrl), title |-> JStr("FB")]
NumPlatform == [platform |-> JNum("5"), url |-> JStr(LiveUrl)]
NoUrl == [platform |-> JStr("youtube"), title |-> JStr("Soon")]
TextualLive == [url |-> JStr(WatchUrl), liveNow |-> JStr("yes")]
Blank == [url |-> JStr(BlankUrl)]

StreamLists ==
  { <<>>, <<ManualLiveFb>>, <<ManualOffYt>>, <<Plain>>, <<Upper>>,
    <<Facebook>>, <<NumPlatform>>, <<NoUrl>>, <<TextualLive>>, <<Blank>>,
    <<Plain, ManualLiveFb>>, <<Facebook, PlainWatch>>, <<Plain, PlainWatch>>,
    <<Plain, NumPlatform>>, <<NumPlatform, Plain>> }

\* The document at LIVE_JSON_URL: malformed, null, or an object with a
\* version and streams (an array or not).
Doc(version, streams) ==
  [kind |-> "object", version |-> version, streamsIsArray |-> TRUE, streams |-> streams]
UpstreamDocs ==
  { Doc(JNum("2"), l) : l \in StreamLists }
  \cup { Doc(Undefined, <<Plain>>),
         [Doc(JNum("2"), <<>>) EXCEPT !.streamsIsArray = FALSE],
         [Doc(JNum("2"), <<>>) EXCEPT !.kind = "null"],
         [Doc(JNum("2"), <<>>) EXCEPT !.kind = "malformed"] }

LiveEnvs ==
  { [LIVE_JSON_URL |-> EnvVar(TRUE, "https://zionsongs.netlify.app/live.v1.json"),
     ALLOWED_ORIGIN |-> EnvVar(FALSE, "")],
    [LIVE_JSON_URL |-> EnvVar(FALSE, ""),
     ALLOWED_ORIGIN |-> EnvVar(TRUE, "https://app.example")] }

LiveCalls == 1..NumLiveCalls

\* The positions of the entries in the upstream lists.
StreamIndexes == UNION { DOMAIN l : l \in StreamLists }

\* ------------------------------------------------------------ aggregator
liveCorsHeaders(origin) ==
  [allowOrigin |-> IF origin # "" THEN origin ELSE "*",
   allowHeaders |-> "Content-Type, Authorization",
   allowMethods |-> "OPTIONS, GET",
   vary |-> "Origin"]

\* event.headers.origin || ALLOWED_ORIGIN || "*" (no request of the model
\* carries an Origin header).
LiveOrigin == IF EnvTruthy(liveEnv.ALLOWED_ORIGIN) THEN liveEnv.ALLOWED_ORIGIN.v ELSE "*"

NoPayload == [version |-> 0, checkedAt |-> ToISOString(0), streams |-> <<>>]
NoLiveResp ==
  [statusCode |-> 0, headers |-> EmptyObj, json |-> FALSE, body |-> "", payload |-> NoPayload]
LiveResponse(status, body) ==
  [statusCode |-> status, headers |-> liveCorsHeaders(LiveOrigin), json |-> FALSE,
   body |-> body, payload |-> NoPayload]
\* 200 with Content-Type application/json and JSON.stringify(payload).
JsonResponse(payload) ==
  [statusCode |-> 200, headers |-> liveCorsHeaders(LiveOrigin), json |-> TRUE,
   body |-> "", payload |-> payload]

\* let cache = { at: 0, payload: null }
EmptyCache == [at |-> 0, has |-> FALSE, payload |-> NoPayload]

IdleLive ==
  [pc |-> "idle", method |-> "GET", now |-> 0, items |-> <<>>, version |-> 0,
   resp |-> NoLiveResp, listFetches |-> 0, fromCache |-> FALSE]

\* The test with twice the TTL.
CacheFreshTwoWindows(t) == cache.has /\ t - cache.at < 2 * CACHE_TTL_MS

\* The test with the TTL taken in seconds.
CacheFreshInSeconds(t) == cache.has /\ t - cache.at < CACHE_TTL_MS \div 1000

\* The test with <= for <.
CacheFreshInclusive(t) == cache.has /\ t - cache.at <= CACHE_TTL_MS

\* cache.payload && now - cache.at < CACHE_TTL_MS
CacheFresh(t) == cache.has /\ t - cache.at < CACHE_TTL_MS

\* Number(json.version) || 1
Version(doc) ==
  IF doc.version.t = "number" /\ doc.version.v = "2" THEN 2 ELSE 1

\* out.liveNow = b
SetLiveNow(out, b) ==
  [k \in (DOMAIN out) \cup {"liveNow"} |->
     IF k = "liveNow" THEN (IF b THEN JTrue ELSE JFalse) ELSE out[k]]

\* One entry of streams.map(async (s) => ...): the promise of the callback,
\* where its liveness probe stands, and the entry it returns.
Item(promise, st, probed, fetches, out) ==
  [promise |-> promise, st |-> st, probed |-> probed, fetches |-> fetches,
   finalWatch |-> FALSE, failed |-> FALSE, out |-> out]

\* isYoutubeLive returns b: the callback sets out.liveNow and returns out.
ProbeReturns(item, b) ==
  [item EXCEPT !.promise = "fulfilled", !.st = "done", !.out = SetLiveNow(item.out, b)]

\* A probe without its try/catch: the failure rejects the callback's promise.
ProbeRaises(item) ==
  [item EXCEPT !.promise = "rejected", !.st = "done", !.failed = TRUE]

\* catch { } return false
ProbeFails(item) == [ProbeReturns(item, FALSE) EXCEPT !.failed = TRUE]

\* String.prototype.toLowerCase on the platform names of the model.
ToLowerCase(s) == IF s = "YouTube" THEN "youtube" ELSE s

\* out.platform || "youtube"
PlatformOrDefault(out) ==
  IF Truthy(Get(out, "platform")) THEN Get(out, "platform") ELSE JStr("youtube")

\* (out.platform || "youtube").toLowerCase() throws a TypeError when the
\* platform is a truthy value that is no string (check-live.js only).
PlatformThrows(out) == impl = CheckLive /\ PlatformOrDefault(out).t # "string"

\* A platform test that takes every platform for youtube.
IsYoutubeAlways(out) == TRUE

\* platform === "youtube": after toLowerCase() in check-live.js, as it is
\* in part_001.
IsYoutube(out) ==
  IF impl = CheckLive
  THEN ToLowerCase(PlatformOrDefault(out).v) = "youtube"
  ELSE PlatformOrDefault(out) = JStr("youtube")

\* isYoutubeLive up to its first await: check-live.js returns false for a
\* blank URL, and otherwise the first fetch is issued.
isYoutubeLiveStart(out) ==
  IF impl = CheckLive /\ Trim(Get(out, "url").v) = ""
  THEN ProbeReturns(Item("pending", "none", TRUE, 0, out), FALSE)
  ELSE Item("pending", "fetch1", TRUE, 1, out)

\* The map callback without its manual-override test.
resolveEntryOverrideIgnored(s) ==
  IF PlatformThrows(s) THEN Item("rejected", "none", FALSE, 0, s)
  ELSE IF IsYoutube(s) /\ Truthy(Get(s, "url")) THEN isYoutubeLiveStart(s)
  ELSE Item("fulfilled", "none", FALSE, 0, SetLiveNow(s, FALSE))

\* The map callback up to its first await.
resolveEntry(s) ==
  IF Get(s, "liveNow").t = "boolean" THEN Item("fulfilled", "none", FALSE, 0, s)
  ELSE IF PlatformThrows(s) THEN Item("rejected", "none", FALSE, 0, s)
  ELSE IF IsYoutube(s) /\ Truthy(Get(s, "url")) THEN isYoutubeLiveStart(s)
  ELSE Item("fulfilled", "none", FALSE, 0, SetLiveNow(s, FALSE))

\* The strong live signals looked for in a watch page.
StrongSignals(html) ==
  html \cap {"isLiveNow", "iconTypeLIVE", "liveBroadcastDetails", "isLiveBroadcast"} # {}
\* The signals looked for in a channel or /live page.
ChannelSignals(html) ==
  html \cap {"isLiveNow", "iconTypeLIVE", "ytBadgesLIVE", "live_stream"} # {}

\* The URL a probe's pending fetch asks for.
Requested(item) ==
  IF item.st = "fetch2" THEN CanonicalWatchUrl
  ELSE IF impl = CheckLive THEN Normalize(Trim(Get(item.out, "url").v))
  ELSE Get(item.out, "url").v

\* fetch rejects at once for a text that is no URL.
Fetchable(url) == Trim(url) # ""

\* The probe after its fetch resolved with res.url = resUrl.
AfterFetch(item, resUrl) ==
  LET finalUrl == IF resUrl # "" THEN resUrl ELSE Requested(item) IN
  IF impl = CheckLive
  THEN [item EXCEPT !.st = IF item.st = "fetch1" THEN "body1" ELSE "body2",
                    !.finalWatch = IsWatch(finalUrl)]
  ELSE IF IsWatch(finalUrl) \/ HasLiveStream(finalUrl)
       THEN ProbeReturns(item, TRUE)
       ELSE [item EXCEPT !.st = "body1"]

\* The probe after res.text() resolved with html.
AfterBody(item, html) ==
  IF impl = Part001 THEN ProbeReturns(item, "isLiveNow" \in html)
  ELSE IF item.st = "body2" THEN ProbeReturns(item, StrongSignals(html))
  ELSE IF item.finalWatch THEN ProbeReturns(item, StrongSignals(html))
  ELSE IF "canonical" \in html
       THEN [item EXCEPT !.st = "fetch2", !.fetches = @ + 1]
       ELSE ProbeReturns(item, ChannelSignals(html))

AllFulfilled(r) == \A i \in DOMAIN r.items : r.items[i].promise = "fulfilled"
AnyRejected(r) == \E i \in DOMAIN r.items : r.items[i].promise = "rejected"

\* A payload whose entries come last first.
PayloadReversed(r) ==
  [version |-> r.version, checkedAt |-> ToISOString(now),
   streams |-> [i \in DOMAIN r.items |-> r.items[Len(r.items) + 1 - i].out]]

\* { version, checkedAt: new Date().toISOString(), streams: updated }
Payload(r) ==
  [version |-> r.version, checkedAt |-> ToISOString(now),
   streams |-> [i \in DOMAIN r.items |-> r.items[i].out]]

\* await Promise.all(...) and what follows it: a rejection is caught and
\* answered 500; once every callback has returned, the payload is built,
\* stored in the cache slot and returned.
\* What is kept of a callback once the handler has returned: whether it
\* called the probe, whether the probe failed, and the entry it returned.
Retired(item) == [item EXCEPT !.st = "done", !.fetches = 0, !.finalWatch = FALSE]
Settled(r) ==
  IF AnyRejected(r)
  THEN [r EXCEPT !.pc = "returned", !.resp = LiveResponse(500, "error"),
                 !.items = <<>>, !.now = 0]
  ELSE IF AllFulfilled(r)
  THEN [r EXCEPT !.pc = "returned", !.resp = JsonResponse(Payload(r)),
                 !.items = [i \in DOMAIN r.items |-> Retired(r.items[i])]]
  ELSE [r EXCEPT !.pc = "probing"]

\* A cache store that does not wait for the refresh to succeed.
CacheAfterUnconditional(r) == [at |-> r.now, has |-> TRUE, payload |-> Payload(r)]

\* cache = { at: now, payload }, reached only when every callback returned.
CacheAfter(r) ==
  IF ~AnyRejected(r) /\ AllFulfilled(r)
  THEN [at |-> r.now, has |-> TRUE, payload |-> Payload(r)]
  ELSE cache

\* The handler of the aggregator up to its first await: an early response,
\* the cached payload, or the upstream fetch is issued.
InFlight(c) == live[c].pc \in {"awaitList", "probing"}

\* Overlapping invocations are explored over the short upstream lists: a
\* second invocation overlaps the first over the lists of at most one entry,
\* a third over the empty list; over the longer lists one invocation runs at
\* a time.
OverlapExplored(c) == upstream.kind = "object" /\ Len(upstream.streams) + c <= 3

\* An invocation takes the first slot that no invocation in flight holds.
liveHandler(c) ==
  /\ ~InFlight(c)
  /\ \A d \in LiveCalls : d < c => InFlight(d)
  /\ c > 1 => OverlapExplored(c)
  /\ \E method \in Methods :
       LET r == [IdleLive EXCEPT !.method = method] IN
       live' = [live EXCEPT ![c] =
         IF method = "OPTIONS"
         THEN [r EXCEPT !.pc = "returned", !.resp = LiveResponse(204, "")]
         ELSE IF method # "GET"
         THEN [r EXCEPT !.pc = "returned", !.resp = LiveResponse(405, "Method Not Allowed")]
         ELSE IF ~EnvTruthy(liveEnv.LIVE_JSON_URL)
         THEN [r EXCEPT !.pc = "returned", !.resp = LiveResponse(500, "LIVE_JSON_URL missing")]
         ELSE IF CacheFresh(now)
         THEN [r EXCEPT !.pc = "returned", !.resp = JsonResponse(cache.payload),
                        !.now = now, !.fromCache = TRUE]
         ELSE [r EXCEPT !.pc = "awaitList", !.now = now, !.listFetches = 1]]
  /\ UNCHANGED <<uvars, impl, liveEnv, upstream, now, cache>>

\* The upstream answers with a non-success status.
listNotOk(c) ==
  /\ live[c].pc = "awaitList"
  /\ live' = [live EXCEPT ![c] =
                [@ EXCEPT !.pc = "returned", !.now = 0, !.resp = LiveResponse(502, "Upstream")]]
  /\ UNCHANGED <<uvars, impl, liveEnv, upstream, now, cache>>

\* The upstream fetch rejects: caught, 500.
listRejects(c) ==
  /\ live[c].pc = "awaitList"
  /\ live' = [live EXCEPT ![c] =
                [@ EXCEPT !.pc = "returned", !.now = 0, !.resp = LiveResponse(500, "error")]]
  /\ UNCHANGED <<uvars, impl, liveEnv, upstream, now, cache>>

\* The upstream answers with success: upstream.json(), then the map over the
\* streams, each callback run up to its first await, then Promise.all.
listOk(c) ==
  /\ live[c].pc = "awaitList"
  /\ IF upstream.kind # "object"
     THEN /\ live' = [live EXCEPT ![c] =
                  [@ EXCEPT !.pc = "returned", !.now = 0, !.resp = LiveResponse(500, "error")]]
          /\ UNCHANGED cache
     ELSE LET streams == IF upstream.streamsIsArray THEN upstream.streams ELSE <<>>
              r == [live[c] EXCEPT
                      !.items = [i \in DOMAIN streams |-> resolveEntry(streams[i])],
                      !.version = Version(upstream)]
          IN /\ live' = [live EXCEPT ![c] = Settled(r)]
             /\ cache' = CacheAfter(r)
  /\ UNCHANGED <<uvars, impl, liveEnv, upstream, now>>

\* The handler goes on after entry i's probe moved to `item`.
ProbeStep(c, i, item) ==
  LET r == [live[c] EXCEPT !.items[i] = item] IN
  /\ live' = [live EXCEPT ![c] = Settled(r)]
  /\ cache' = CacheAfter(r)
  /\ UNCHANGED <<uvars, impl, liveEnv, upstream, now>>

Probing(c, i, sts) ==
  /\ live[c].pc = "probing"
  /\ i \in DOMAIN live[c].items
  /\ live[c].items[i].promise = "pending"
  /\ live[c].items[i].st \in sts

\* A probe's fetch resolves, with the URL it ended on.
probeFetchResolves(c, i) ==
  /\ Probing(c, i, {"fetch1", "fetch2"})
  /\ Fetchable(Requested(live[c].items[i]))
  /\ \E resUrl \in FinalUrls(Requested(live[c].items[i])) :
       ProbeStep(c, i, AfterFetch(live[c].items[i], resUrl))

\* A probe's fetch rejects (network error, invalid URL).
probeFetchRejects(c, i) ==
  /\ Probing(c, i, {"fetch1", "fetch2"})
  /\ ProbeStep(c, i, ProbeFails(live[c].items[i]))

\* withTimeout: the abort timer fires while the fetch is pending
\* (check-live.js only).
probeTimeout(c, i) ==
  /\ impl = CheckLive
  /\ Probing(c, i, {"fetch1", "fetch2"})
  /\ ProbeStep(c, i, ProbeFails(live[c].items[i]))

\* res.text() resolves with the markup.
probeBodyArrives(c, i) ==
  /\ Probing(c, i, {"body1", "body2"})
  /\ \E html \in Htmls : ProbeStep(c, i, AfterBody(live[c].items[i], html))

\* res.text() rejects.
probeBodyThrows(c, i) ==
  /\ Probing(c, i, {"body1", "body2"})
  /\ ProbeStep(c, i, ProbeFails(live[c].items[i]))

\* Time passes.
Tick ==
  /\ now + TickMs \in Times
  /\ now' = now + TickMs
  /\ UNCHANGED <<uvars, impl, liveEnv, upstream, cache, live>>

UpdaterAtRest ==
  /\ env = GoodEnv
  /\ remote = RemoteFile(Base64Encode(BannerFile))
  /\ call = [c \in Calls |-> IdleCall]

AggregatorAtRest ==
  /\ impl = CheckLive
  /\ liveEnv \in { e \in LiveEnvs : EnvTruthy(e.LIVE_JSON_URL) }
  /\ upstream = Doc(JNum("2"), <<>>)
  /\ now = StartMs
  /\ cache = EmptyCache
  /\ live = [c \in LiveCalls |-> IdleLive]

InitAggregator ==
  /\ UpdaterAtRest
  /\ impl \in Impls
  /\ liveEnv \in LiveEnvs
  /\ upstream \in UpstreamDocs
  /\ now = StartMs
  /\ cache = EmptyCache
  /\ live = [c \in LiveCalls |-> IdleLive]

NextAggregator ==
  \/ Tick
  \/ \E c \in LiveCalls :
       \/ liveHandler(c)
       \/ listNotOk(c)
       \/ listRejects(c)
       \/ listOk(c)
       \/ \E i \in StreamIndexes :
            \/ probeFetchResolves(c, i)
            \/ probeFetchRejects(c, i)
            \/ probeTimeout(c, i)
            \/ probeBodyArrives(c, i)
            \/ probeBodyThrows(c, i)

SpecAggregator == InitAggregator /\ [][NextAggregator]_vars

\* The timers of withTimeout fire, each of them: an abort timer that stays
\* armed is run by the event loop. Nothing makes the remote servers answer.
TimersFire == \A c \in LiveCalls : \A i \in StreamIndexes : WF_vars(probeTimeout(c, i))

SpecAggregatorFair == InitAggregator /\ [][NextAggregator]_vars /\ TimersFire

\* A deployment with its configuration complete, over any initial file; or
\* one with a setting missing, over the banner file.
InitUpdater ==
  /\ \/ env = GoodEnv /\ remote \in { RemoteFile(Base64Encode(t)) : t \in InitialFiles }
     \/ env \in BadEnvs /\ remote = RemoteFile(Base64Encode(BannerFile))
  /\ call = [c \in Calls |-> IdleCall]
  /\ AggregatorAtRest

NextUpdater ==
  \E c \in Calls :
    \/ handler(c)
    \/ getOk(c)
    \/ getNotOk(c)
    \/ getThrows(c)
    \/ putOk(c)
    \/ putNotOk(c)
    \/ putThrows(c)

SpecUpdater == InitUpdater /\ [][NextUpdater]_vars

\* ------------------------------------------------------------ claims: updater
Started(c) == call[c].pc # "idle"
Returned(c) == call[c].pc = "returned"
Status(c) == call[c].resp.statusCode
NoRemoteCall(c) == call[c].gets = 0 /\ call[c].puts = 0 /\ call[c].created = 0

\* The bearer token is missing or differs from the configured secret, or no
\* secret is configured.
BadCredential(c) ==
  LET token == BearerToken(call[c].event) IN
  \/ token = ""
  \/ ~env.ADMIN_SECRET.set
  \/ env.ADMIN_SECRET.v = ""
  \/ token # env.ADMIN_SECRET.v

\* C1 (as amended): an invocation with a missing or wrong bearer token, or
\* with no admin secret configured, never issues the remote read or write and
\* leaves the remote file alone; when it is a POST, it returns 401.
C1_UnauthorizedNeverReachesRemote ==
  \A c \in Calls :
    (Started(c) /\ BadCredential(c)) =>
      /\ NoRemoteCall(c)
      /\ Returned(c)
      /\ (call[c].event.httpMethod = "POST" => Status(c) = 401)

\* C1 witness: a POST with a valid body and a wrong token was answered 401.
C1_Witness ==
  \E c \in Calls :
    /\ Returned(c) /\ Status(c) = 401
    /\ call[c].event = Event("POST", Header("Bearer ", "wrong"), Text(ObjDoc(TitleId)))
    /\ env = GoodEnv

\* C1 as stated: every invocation with a bad credential returns 401 (and
\* reaches no remote call), whatever its method.
C1_Original ==
  \A c \in Calls :
    (Started(c) /\ BadCredential(c)) =>
      (NoRemoteCall(c) /\ Returned(c) /\ Status(c) = 401)

\* The object a request body denotes, when it denotes one.
BodyObject(c) == Parsed(BodyText(call[c].event)).o

\* C2: on the step in which a call returns 200, the file now stored remotely
\* is the object returned as saved, and saved is the shallow merge of the
\* remote content just before the write and the payload: the payload's keys
\* with the payload's values, the other keys of the current content with
\* their current values, and no other key.
C2_SavedIsShallowMerge ==
  [][\A c \in Calls :
       (call[c].pc = "awaitPut" /\ call'[c].pc = "returned"
          /\ call'[c].resp.statusCode = 200) =>
         LET current == Spread(DecodeCurrent(remote.content))
             payload == BodyObject(c)
             saved == call'[c].resp.saved
         IN /\ Base64Decode(remote'.content) = Text(ObjDoc(saved))
            /\ DOMAIN saved = (DOMAIN current) \cup (DOMAIN payload)
            /\ \A k \in DOMAIN payload : saved[k] = payload[k]
            /\ \A k \in (DOMAIN current) \ (DOMAIN payload) : saved[k] = current[k]
    ]_vars

\* C2 witness: over {title:A, id:1, extra:true}, the payload {title:B, id:1}
\* was saved as {title:B, id:1, extra:true}, which is what the file now holds.
C2_Witness ==
  \E c \in Calls :
    /\ Returned(c) /\ Status(c) = 200
    /\ call[c].event.body = Text(ObjDoc(TitleId))
    /\ call[c].currentJson = [title |-> JStr("A"), id |-> JStr("1"), extra |-> JTrue]
    /\ call[c].resp.saved = [title |-> JStr("B"), id |-> JStr("1"), extra |-> JTrue]
    /\ Base64Decode(remote.content) = Text(ObjDoc(call[c].resp.saved))

\* C3: an invocation issues at most one read and at most one write; one that
\* returned 200 created exactly one version of the remote file, and one that
\* returned any other status created none.
C3_OneReadOneWriteNoRetry ==
  \A c \in Calls :
    /\ call[c].gets <= 1
    /\ call[c].puts <= 1
    /\ (Returned(c) /\ Status(c) = 200) =>
         (call[c].gets = 1 /\ call[c].puts = 1 /\ call[c].created = 1)
    /\ (Returned(c) /\ Status(c) # 200) => call[c].created = 0

\* C3 witness: one call returned 200, and another, whose write was rejected,
\* returned 502 having sent its one write.
C3_Witness ==
  \E c, d \in Calls :
    /\ Returned(c) /\ Status(c) = 200 /\ call[c].created = 1
    /\ Returned(d) /\ Status(d) = 502 /\ call[d].puts = 1 /\ call[d].created = 0
    /\ call[d].put.sha # remote.sha

\* An authorized POST to a deployment whose configuration is complete.
AuthorizedConfiguredPost(c) ==
  /\ Started(c)
  /\ call[c].event.httpMethod = "POST"
  /\ env.ADMIN_SECRET.set /\ env.ADMIN_SECRET.v # ""
  /\ call[c].event.authorization = Header("Bearer ", env.ADMIN_SECRET.v)
  /\ env.missing = {}

\* The body is no parseable JSON, or denotes no object, or an object
\* without a title or without an id.
MalformedOrIncomplete(body) ==
  \/ body.empty
  \/ ~body.wf
  \/ body.doc.t # "object"
  \/ "title" \notin DOMAIN body.doc.o
  \/ "id" \notin DOMAIN body.doc.o

\* C4: an authorized, configured POST whose body is not parseable JSON, is
\* not an object, or lacks title or id returns 400 whatever else the body
\* holds, and issues no remote read or write.
C4_MalformedBodyYields400 ==
  \A c \in Calls :
    (AuthorizedConfiguredPost(c) /\ MalformedOrIncomplete(call[c].event.body)) =>
      (Returned(c) /\ Status(c) = 400 /\ NoRemoteCall(c))

\* C4 witness: a body with an id and another field but no title, and a body
\* with a title alone, were each answered 400.
C4_Witness ==
  \E c, d \in Calls :
    /\ AuthorizedConfiguredPost(c) /\ Returned(c) /\ Status(c) = 400
    /\ call[c].event.body = Text(ObjDoc([id |-> JStr("1"), extra |-> JTrue]))
    /\ AuthorizedConfiguredPost(d) /\ Returned(d) /\ Status(d) = 400
    /\ call[d].event.body = Text(ObjDoc([title |-> JStr("B")]))

\* The payload has a title and an id that pass the shape check.
HasTitleAndId(body) ==
  /\ ~body.empty /\ body.wf /\ body.doc.t = "object"
  /\ Truthy(Get(body.doc.o, "title")) /\ Truthy(Get(body.doc.o, "id"))

\* The key is present in the payload, with a value other than null that is
\* no timestamp.
PresentUnparseable(o, k) == k \in DOMAIN o /\ o[k] # JNull /\ DateParse(o[k]) = NaN

\* C5 as stated: for an authorized, configured POST with title and id, a
\* start or end that is present and not parseable as a timestamp yields 400
\* with no remote call; with start and end absent the date check rejects
\* nothing.
C5_Original ==
  \A c \in Calls :
    (AuthorizedConfiguredPost(c) /\ HasTitleAndId(call[c].event.body)) =>
      LET o == call[c].event.body.doc.o IN
      /\ (PresentUnparseable(o, "start") \/ PresentUnparseable(o, "end")) =>
           (Returned(c) /\ Status(c) = 400 /\ NoRemoteCall(c))
      /\ ("start" \notin DOMAIN o /\ "end" \notin DOMAIN o) =>
           ~(Returned(c) /\ Status(c) = 400)

\* The statuses the updater's interface lists.
UpdaterStatuses == {200, 400, 401, 405, 500, 502}

\* C11 as stated, for the invocations that are no CORS preflight (which is
\* answered 204): no exception escapes an updater invocation, and every
\* invocation that has ended returned one of the listed statuses with the
\* CORS headers.
C11_NoExceptionEscapes ==
  \A c \in Calls :
    (Started(c) /\ call[c].event.httpMethod # "OPTIONS") =>
      /\ call[c].pc # "threw"
      /\ Returned(c) =>
           /\ Status(c) \in UpdaterStatuses
           /\ call[c].resp.headers = corsHeaders(Origin(call[c].event))

\* The content the read of invocation c returned (the sha it carries is the
\* sha of that content).
ReadContent(c) == call[c].put.sha.blob

\* C12: when the stored content can be neither decoded nor parsed, an
\* invocation awaiting its read never returns anything but the 502 of a
\* failed read; once the read succeeds it issues the write with next equal
\* to the payload (the merge of {} and the payload); and the response is 200
\* when the store commits the write and 502 when it rejects it.
C12_UndecodableContentIsEmptyObject ==
  [][\A c \in Calls :
       /\ (call[c].pc = "awaitGet" /\ Threw(Base64Decode(remote.content))) =>
            /\ call'[c].pc = "returned" =>
                 (call'[c].resp.statusCode = 502 /\ call'[c].resp.body = "GitHub GET failed")
            /\ call'[c].pc = "awaitPut" =>
                 /\ call'[c].puts = 1
                 /\ call'[c].resp.saved = BodyObject(c)
                 /\ call'[c].put = PutRequest(Merge(EmptyObj, BodyObject(c)), remote.sha)
       /\ (call[c].pc = "awaitPut" /\ Threw(Base64Decode(ReadContent(c)))
             /\ call'[c].pc = "returned") =>
            \/ /\ call'[c].resp.statusCode = 200
               /\ PutAccepted(call[c].put)
               /\ remote' = RemoteFile(call[c].put.content)
               /\ call'[c].resp.saved = BodyObject(c)
            \/ /\ call'[c].resp.statusCode = 502
               /\ remote' = remote
    ]_vars

\* C12 witness: over a file that is no JSON, the payload {title:B, id:1} was
\* saved as it is and answered 200.
C12_Witness ==
  \E c \in Calls :
    /\ Returned(c) /\ Status(c) = 200
    /\ ReadContent(c) = Base64Encode(GarbageText)
    /\ call[c].resp.saved = TitleId
    /\ remote = RemoteFile(Base64Encode(JSONStringify(TitleId)))

\* The step commits the write of invocation c.
Commits(c) == call'[c].created > call[c].created

\* C16 (as amended): the store commits the write of an invocation only while
\* it still holds the content that invocation read, and the content it then
\* holds is the merge of that content and the invocation's payload; one step
\* commits one write, and the file changes by committed writes only; an
\* invocation returns 200 only on the step that commits its write, and one
\* whose write carries a stale token returns 502 and leaves the file alone.
C16_CommittedWritesApplyInOrder ==
  [][/\ \A c \in Calls :
          /\ Commits(c) =>
               /\ call[c].pc = "awaitPut"
               /\ call[c].put.sha = remote.sha
               /\ ReadContent(c) = remote.content
               /\ remote' = RemoteFile(Base64Encode(JSONStringify(
                              Merge(Spread(DecodeCurrent(remote.content)), BodyObject(c)))))
               /\ \A d \in Calls \ {c} : ~Commits(d)
          /\ (call[c].pc = "awaitPut" /\ call'[c].pc = "returned"
                /\ call'[c].resp.statusCode = 200) => Commits(c)
          /\ (call[c].pc = "awaitPut" /\ call'[c].pc = "returned"
                /\ call[c].put.sha # remote.sha) =>
               (call'[c].resp.statusCode = 502 /\ remote' = remote)
     /\ remote' # remote => \E c \in Calls : Commits(c)
    ]_vars

\* C16 witness: of two invocations that read the same content and carried
\* different payloads, one was committed and answered 200, the other was
\* rejected with 502, and the file holds what the first one wrote.
C16_Witness ==
  \E c, d \in Calls :
    /\ call[c].put.sha = call[d].put.sha
    /\ call[c].put.content # call[d].put.content
    /\ Returned(c) /\ Status(c) = 200
    /\ Returned(d) /\ Status(d) = 502 /\ call[d].created = 0
    /\ remote = RemoteFile(call[c].put.content)

\* C16 as stated: of the invocations that read the same version token at
\* most one returns 200, and the writes the store holds are those of exactly
\* the invocations that returned 200.
C16_Original ==
  /\ \A c, d \in Calls :
       ( /\ c # d
         /\ Returned(c) /\ Status(c) = 200
         /\ Returned(d) /\ Status(d) = 200 ) => call[c].put.sha # call[d].put.sha
  /\ \A c \in Calls : call[c].created > 0 <=> (Returned(c) /\ Status(c) = 200)

\* ------------------------------------------------------------ claims: aggregator
LiveReturned(c) == live[c].pc = "returned"
LiveStatus(c) == live[c].resp.statusCode
\* The stream list a refresh fetches.
FetchedStreams ==
  IF upstream.kind = "object" /\ upstream.streamsIsArray THEN upstream.streams ELSE <<>>
Manual(s) == "liveNow" \in DOMAIN s /\ s.liveNow \in {JTrue, JFalse}

\* C6: in every 200 response, computed or served from the cache, an entry
\* whose liveNow was a boolean in the fetched list carries that same value,
\* whatever its platform or URL; and no callback ever calls the probe or
\* issues a fetch for such an entry.
C6_ManualOverrideKept ==
  \A c \in LiveCalls :
    /\ (LiveReturned(c) /\ LiveStatus(c) = 200) =>
         /\ DOMAIN live[c].resp.payload.streams = DOMAIN FetchedStreams
         /\ \A i \in DOMAIN FetchedStreams :
              Manual(FetchedStreams[i]) =>
                live[c].resp.payload.streams[i].liveNow = FetchedStreams[i].liveNow
    /\ \A i \in DOMAIN live[c].items :
         Manual(FetchedStreams[i]) =>
           (~live[c].items[i].probed /\ live[c].items[i].fetches = 0
              /\ live[c].items[i].promise = "fulfilled")

\* C6 witness: a response served from the cache in which the facebook entry
\* marked live by hand is live, next to a probed entry found not live.
C6_Witness ==
  \E c \in LiveCalls :
    /\ LiveReturned(c) /\ LiveStatus(c) = 200 /\ live[c].fromCache
    /\ FetchedStreams = <<Plain, ManualLiveFb>>
    /\ live[c].resp.payload.streams[1].liveNow = JFalse
    /\ live[c].resp.payload.streams[2].liveNow = JTrue

\* The platform of the entry is a non-empty text other than youtube, in any
\* letter case.
UnsupportedPlatform(s) ==
  /\ "platform" \in DOMAIN s
  /\ s.platform.t = "string"
  /\ s.platform.v \notin {"", "youtube", "YouTube"}

\* C7 (as amended): in every 200 response, an entry whose platform is an
\* unsupported one and whose liveNow was no boolean in the fetched list has
\* liveNow equal to false.
C7_UnsupportedPlatformNotLive ==
  \A c \in LiveCalls :
    (LiveReturned(c) /\ LiveStatus(c) = 200) =>
      \A i \in DOMAIN FetchedStreams :
        (UnsupportedPlatform(FetchedStreams[i]) /\ ~Manual(FetchedStreams[i])) =>
          /\ i \in DOMAIN live[c].resp.payload.streams
          /\ live[c].resp.payload.streams[i].liveNow = JFalse

\* C7 witness: a facebook entry answered not live next to a youtube entry
\* answered live.
C7_Witness ==
  \E c \in LiveCalls :
    /\ LiveReturned(c) /\ LiveStatus(c) = 200
    /\ FetchedStreams = <<Facebook, PlainWatch>>
    /\ live[c].resp.payload.streams[1].liveNow = JFalse
    /\ live[c].resp.payload.streams[2].liveNow = JTrue

\* C7 as stated: in every 200 response, every entry whose platform is an
\* unsupported one has liveNow equal to false.
C7_Original ==
  \A c \in LiveCalls :
    (LiveReturned(c) /\ LiveStatus(c) = 200) =>
      \A i \in DOMAIN FetchedStreams :
        UnsupportedPlatform(FetchedStreams[i]) =>
          /\ i \in DOMAIN live[c].resp.payload.streams
          /\ live[c].resp.payload.streams[i].liveNow = JFalse

\* The step is the entry of a GET invocation in slot c.
EntersGet(c) == ~InFlight(c) /\ live'[c] # live[c] /\ live'[c].method = "GET"

\* C8 (as amended): once a refresh has stored a payload, a GET call made
\* while now - cache.at is below the TTL returns 200 with the payload the
\* slot holds, checkedAt included, issues no upstream fetch and no probe, and
\* leaves the slot as it is.
C8_FreshCacheServed ==
  [][\A c \in LiveCalls :
       (EntersGet(c) /\ cache.has /\ now - cache.at < CACHE_TTL_MS) =>
         /\ live'[c].pc = "returned"
         /\ live'[c].resp.statusCode = 200
         /\ live'[c].resp.payload = cache.payload
         /\ live'[c].listFetches = 0
         /\ live'[c].items = <<>>
         /\ cache' = cache
    ]_vars

\* C8 witness: a call made half a TTL after the refresh that filled the slot
\* was answered from the slot.
C8_Witness ==
  \E c \in LiveCalls :
    /\ LiveReturned(c) /\ LiveStatus(c) = 200 /\ live[c].fromCache
    /\ live[c].now = cache.at + TickMs
    /\ live[c].resp.payload = cache.payload
    /\ live[c].listFetches = 0

\* C8 as stated: any two GET calls answered 200 whose times are less than
\* a TTL apart return the same checkedAt.
C8_Original ==
  \A c, d \in LiveCalls :
    ( /\ LiveReturned(c) /\ LiveStatus(c) = 200
      /\ LiveReturned(d) /\ LiveStatus(d) = 200
      /\ live[c].now - live[d].now < CACHE_TTL_MS
      /\ live[d].now - live[c].now < CACHE_TTL_MS ) =>
      live[c].resp.payload.checkedAt = live[d].resp.payload.checkedAt

\* The slot is empty, or its entry was captured a TTL ago or more.
CacheStale == ~cache.has \/ now - cache.at >= CACHE_TTL_MS

\* The step is a refresh in slot c ending with 200.
RefreshSucceeds(c) ==
  InFlight(c) /\ live'[c].pc = "returned" /\ live'[c].resp.statusCode = 200

\* C9 (as amended): with LIVE_JSON_URL configured, a GET call made when the
\* slot is empty or its entry is a TTL old or more issues the upstream fetch;
\* a refresh that ends with 200 returns a checkedAt computed at that moment
\* and overwrites the slot with its own start time and payload; and no other
\* step changes the slot, which is never emptied.
C9_StaleCacheRefetched ==
  [][/\ \A c \in LiveCalls :
          /\ (EntersGet(c) /\ EnvTruthy(liveEnv.LIVE_JSON_URL) /\ CacheStale) =>
               (live'[c].pc = "awaitList" /\ live'[c].listFetches = 1)
          /\ RefreshSucceeds(c) =>
               /\ live'[c].resp.payload.checkedAt = ToISOString(now)
               /\ cache' = [at |-> live[c].now, has |-> TRUE,
                            payload |-> live'[c].resp.payload]
     /\ cache' # cache => \E c \in LiveCalls : RefreshSucceeds(c)
     /\ cache.has => cache'.has
    ]_vars

\* C9 witness: a call made a full TTL after the slot was filled fetched anew
\* and overwrote the slot.
C9_Witness ==
  \E c \in LiveCalls :
    /\ LiveReturned(c) /\ LiveStatus(c) = 200 /\ ~live[c].fromCache
    /\ live[c].listFetches = 1
    /\ live[c].now = StartMs + CACHE_TTL_MS
    /\ cache = [at |-> live[c].now, has |-> TRUE, payload |-> live[c].resp.payload]

\* C9 as stated: every GET call made when the slot is empty or stale issues
\* the upstream fetch.
C9_Original ==
  [][\A c \in LiveCalls :
       (EntersGet(c) /\ CacheStale) =>
         (live'[c].pc = "awaitList" /\ live'[c].listFetches = 1)
    ]_vars

\* C10: while the handler awaits its probes, a probe that fails (timeout,
\* network error, body that cannot be read) makes its entry not live and
\* leaves the other entries as they are, and the handler can only end by
\* returning 200 with a boolean liveNow in every entry.
C10_ProbeNeverRaises ==
  [][\A c \in LiveCalls :
       live[c].pc = "probing" =>
         /\ live'[c].pc \in {"probing", "returned"}
         /\ live'[c].pc = "returned" =>
              /\ live'[c].resp.statusCode = 200
              /\ DOMAIN live'[c].resp.payload.streams = DOMAIN FetchedStreams
              /\ \A i \in DOMAIN FetchedStreams :
                   live'[c].resp.payload.streams[i].liveNow \in {JTrue, JFalse}
         /\ \A i \in DOMAIN live[c].items :
              (i \in DOMAIN live'[c].items
                 /\ live'[c].items[i].failed /\ ~live[c].items[i].failed) =>
                /\ live'[c].items[i].promise = "fulfilled"
                /\ live'[c].items[i].out.liveNow = JFalse
                /\ \A j \in (DOMAIN live[c].items) \ {i} :
                     /\ live'[c].items[j].out = live[c].items[j].out
                     /\ live'[c].items[j].promise = live[c].items[j].promise
    ]_vars

\* C10 witness: a 200 response in which the entry whose probe failed is not
\* live and the other entry is live.
C10_Witness ==
  \E c \in LiveCalls :
    /\ LiveReturned(c) /\ LiveStatus(c) = 200 /\ ~live[c].fromCache
    /\ FetchedStreams = <<Plain, PlainWatch>>
    /\ live[c].items[1].failed /\ live[c].resp.payload.streams[1].liveNow = JFalse
    /\ ~live[c].items[2].failed /\ live[c].resp.payload.streams[2].liveNow = JTrue

\* C13 as stated: a probe whose first fetch ended on a URL that is no watch
\* page, and whose markup holds no canonical watch link (so that no second
\* fetch is made), ends with false.
C13_NoWatchPageNotLive ==
  [][\A c \in LiveCalls : \A i \in StreamIndexes :
       ( /\ live[c].pc = "probing"
         /\ i \in DOMAIN live[c].items
         /\ live[c].items[i].st = "body1"
         /\ ~live[c].items[i].finalWatch
         /\ i \in DOMAIN live'[c].items
         /\ live'[c].items[i].st = "done" ) =>
         live'[c].items[i].out.liveNow = JFalse
    ]_vars

\* C14 as stated: with the timers firing, a refresh that awaits its probes
\* eventually returns a response, whatever the remote servers do.
C14_RefreshEventuallyReturns ==
  \A c \in LiveCalls : (live[c].pc = "probing") ~> (live[c].pc = "returned")

\* The platform of the entry is absent, or is youtube in some letter case.
YoutubePlatform(s) ==
  "platform" \notin DOMAIN s
    \/ (s.platform.t = "string" /\ s.platform.v \in {"youtube", "YouTube"})

\* C15 as stated: in every computed 200 response, an entry with no boolean
\* liveNow, a url, and a platform that is absent or youtube in any letter
\* case went through the liveness heuristic, whose result is its liveNow.
C15_YoutubeEntriesProbed ==
  \A c \in LiveCalls :
    (LiveReturned(c) /\ LiveStatus(c) = 200 /\ ~live[c].fromCache) =>
      \A i \in DOMAIN FetchedStreams :
        ( /\ ~Manual(FetchedStreams[i])
          /\ Truthy(Get(FetchedStreams[i], "url"))
          /\ YoutubePlatform(FetchedStreams[i]) ) =>
          /\ live[c].items[i].probed
          /\ live[c].resp.payload.streams[i].liveNow = live[c].items[i].out.liveNow

\* The step ends a refresh in slot c with a failure.
RefreshFails(c) ==
  InFlight(c) /\ live'[c].pc = "returned" /\ live'[c].resp.statusCode # 200

\* C17: a refresh that fails ends with 502 or 500 and a plain-text body, with
\* no payload and no stream entry, and leaves the cache slot as it was; and
\* every step that changes the slot is the end of a refresh answered 200.
C17_FailedRefreshKeepsCache ==
  [][/\ \A c \in LiveCalls :
          RefreshFails(c) =>
            /\ live'[c].resp.statusCode \in {500, 502}
            /\ ~live'[c].resp.json
            /\ live'[c].resp.body \in {"error", "Upstream"}
            /\ live'[c].resp.payload = NoPayload
            /\ cache' = cache
     /\ cache' # cache => \E c \in LiveCalls : RefreshSucceeds(c)
    ]_vars

\* C17 witness: the slot was filled, a TTL later a refresh was answered 502
\* by the upstream, and the slot still holds the entry captured at the start.
C17_Witness ==
  \E c \in LiveCalls :
    /\ LiveReturned(c) /\ LiveStatus(c) = 502 /\ live[c].listFetches = 1
    /\ cache.has /\ cache.at = StartMs
    /\ now - cache.at >= CACHE_TTL_MS

\* C18: in every 200 response, computed or served from the cache, streams
\* has the positions of the fetched list, and the entry at each position is
\* the fetched entry at that position with a boolean liveNow: the same keys
\* plus liveNow, and the same value under every other key.
C18_OrderAndFieldsPreserved ==
  \A c \in LiveCalls :
    (LiveReturned(c) /\ LiveStatus(c) = 200) =>
      LET out == live[c].resp.payload.streams IN
      /\ DOMAIN out = DOMAIN FetchedStreams
      /\ \A i \in DOMAIN FetchedStreams :
           /\ DOMAIN out[i] = (DOMAIN FetchedStreams[i]) \cup {"liveNow"}
           /\ out[i].liveNow \in {JTrue, JFalse}
           /\ \A k \in (DOMAIN FetchedStreams[i]) \ {"liveNow"} :
                out[i][k] = FetchedStreams[i][k]

\* C18 witness: two probed entries, the first found live and the second not,
\* each in its place with its own fields.
C18_Witness ==
  \E c \in LiveCalls :
    /\ LiveReturned(c) /\ LiveStatus(c) = 200
    /\ FetchedStreams = <<Plain, PlainWatch>>
    /\ live[c].resp.payload.streams =
         << SetLiveNow(Plain, TRUE), SetLiveNow(PlainWatch, FALSE) >>

\* C19: the slot is empty or holds a pair; a step that changes it is the end
\* of one refresh answered 200, and puts in it the time at which that
\* refresh issued its upstream fetch together with the payload that refresh
\* returns; and a response served from the slot returns the payload the slot
\* holds, less than the TTL after the fetch of the refresh that stored it.
C19_SlotHoldsOneRefresh ==
  [][/\ cache'.has \/ cache' = EmptyCache
     /\ cache' # cache =>
          \E c \in LiveCalls :
            /\ RefreshSucceeds(c)
            /\ live[c].listFetches = 1
            /\ cache' = [at |-> live[c].now, has |-> TRUE,
                         payload |-> live'[c].resp.payload]
     /\ \A c \in LiveCalls :
          /\ (EntersGet(c) /\ live'[c].pc = "awaitList") =>
               (live'[c].now = now /\ live'[c].listFetches = 1)
          /\ (EntersGet(c) /\ live'[c].fromCache) =>
               /\ cache.has
               /\ live'[c].resp.payload = cache.payload
               /\ cache.at <= now
               /\ now - cache.at < CACHE_TTL_MS
    ]_vars

\* C19 witness: of two overlapping refreshes the one started first ended
\* last and overwrote the slot, and a later call was served that refresh's
\* payload; the refresh started second returned another payload.
C19_Witness ==
  \E c, d \in LiveCalls :
    /\ LiveReturned(c) /\ LiveStatus(c) = 200 /\ live[c].fromCache
    /\ live[c].resp.payload = cache.payload
    /\ LiveReturned(d) /\ LiveStatus(d) = 200 /\ ~live[d].fromCache
    /\ live[d].now > cache.at
    /\ live[d].resp.payload # cache.payload
====
